---- MODULE Spec2Model ----
(***************************************************************************)
(* cat: concatenate FILE(s) to standard output (changkun/cat, cat.go).     *)
(*                                                                         *)
(* A path is the string the program handles, kept as the sequence of its   *)
(* segments between "/" separators: "t/b" is <<"t","b">>, "/r/a" is        *)
(* <<"","r","a">>, "t//b" is <<"t","","b">>, "t/" is <<"t","">>, "/" is    *)
(* <<"","">> and the empty string is <<"">>.  Two paths are the same       *)
(* string exactly when they are the same sequence.                         *)
(***************************************************************************)
EXTENDS Integers, Sequences, FiniteSets, TLC

VARIABLES
    args,    \* flag.Args(): the file arguments of the run
    stdin,   \* the bytes standard input delivers
    data,    \* content of every regular file of the filesystem
    w,       \* the io.Writer handed to cat / io.Copy (os.Stdout in main)
    out,     \* bytes the writer has accepted so far
    errs,    \* main's errs slice
    stderr,  \* lines written to standard error
    pc,      \* position of the caller (main, or the test calling cat)
    j,       \* index of the deferred reporting loop of main
    calls,   \* history: the src of every call of cat, in call order
    marks,   \* history: Len(out) and cat's f each time a call returned to main
    cpc,     \* position inside cat
    src,     \* cat's local src
    f,       \* cat's local f (the *os.File from os.Open)
    ret,     \* the error cat returns
    fds      \* file descriptors currently open in the process

vars == <<args, stdin, data, w, out, errs, stderr, pc, j, calls, marks,
          cpc, src, f, ret, fds>>

-----------------------------------------------------------------------------
(* Bounds of the model. *)

\* longest file (and standard input) content, in bytes
MaxLen == 3
\* size of io.Copy's transfer buffer, in bytes (32 KiB in the Go library)
BufSize == 2
\* most file arguments of a run of main
MaxArgs == 2

Bytes == {0, 255}

RECURSIVE SeqsUpTo(_, _)
SeqsUpTo(S, n) ==
    IF n = 0 THEN {<<>>}
    ELSE LET shorter == SeqsUpTo(S, n - 1)
         IN  shorter \cup {Append(s, x) : s \in {t \in shorter : Len(t) = n - 1}, x \in S}

Contents == SeqsUpTo(Bytes, MaxLen)

Min(a, b) == IF a <= b THEN a ELSE b

Front(s) == SubSeq(s, 1, Len(s) - 1)

IsPrefix(s, t) == Len(s) <= Len(t) /\ SubSeq(t, 1, Len(s)) = s

-----------------------------------------------------------------------------
(* filepath.Clean and the base name of os.FileInfo.Name(). *)

IsAbs(path) == Len(path) >= 2 /\ path[1] = ""

RECURSIVE CleanSegs(_, _, _)
CleanSegs(segs, rooted, acc) ==
    IF segs = <<>> THEN acc
    ELSE LET s    == Head(segs)
             rest == Tail(segs)
         IN  CASE s = "" \/ s = "." -> CleanSegs(rest, rooted, acc)
               [] s = ".." ->
                    IF acc # <<>> /\ acc[Len(acc)] # ".."
                    THEN CleanSegs(rest, rooted, Front(acc))
                    ELSE IF rooted
                         THEN CleanSegs(rest, rooted, acc)
                         ELSE CleanSegs(rest, rooted, Append(acc, ".."))
               [] OTHER -> CleanSegs(rest, rooted, Append(acc, s))

Clean(path) ==
    LET rooted == IsAbs(path)
        segs   == CleanSegs(path, rooted, <<>>)
    IN  IF rooted
        THEN IF segs = <<>> THEN <<"", "">> ELSE <<"">> \o segs
        ELSE IF segs = <<>> THEN <<".">> ELSE segs

RECURSIVE StripSlashes(_)
StripSlashes(path) ==
    IF Len(path) > 1 /\ path[Len(path)] = ""
    THEN StripSlashes(Front(path))
    ELSE path

\* Basename returning the whole name instead of its last element
BasenameFull(name) == name

\* os.basename, which fills FileInfo.Name(): trailing slashes are removed,
\* then everything up to the last slash; a name of slashes only is "/".
Basename(name) ==
    LET s == StripSlashes(name)
    IN  IF s = <<"">> /\ Len(name) > 1 THEN <<"", "">> ELSE <<s[Len(s)]>>

-----------------------------------------------------------------------------
(* The filesystem the program runs on.  A node is the sequence of names    *)
(* from the root; the process runs with Cwd as its working directory.      *)

Dir == [kind |-> "dir", file |-> "", target |-> <<>>]
File(id) == [kind |-> "file", file |-> id, target |-> <<>>]
Link(t) == [kind |-> "link", file |-> "", target |-> t]

Root == <<>>
Cwd == <<"r">>

Files == {"A", "B"}

FS ==
    (Root :> Dir) @@
    (<<"r">> :> Dir) @@
    (<<"r", "a">> :> File("A")) @@
    (<<"r", "t">> :> Dir) @@
    (<<"r", "t", "b">> :> File("B")) @@
    \* links in the working directory
    (<<"r", "l">> :> Link(<<"a">>)) @@
    (<<"r", "l2">> :> Link(<<"l">>)) @@
    (<<"r", "k">> :> Link(<<"n">>)) @@
    (<<"r", "j">> :> Link(<<"t">>)) @@
    \* links in the directory t
    (<<"r", "t", "lb">> :> Link(<<"b">>)) @@
    (<<"r", "t", "m">> :> Link(<<"", "r", "t", "b">>)) @@
    (<<"r", "t", "c">> :> Link(<<"t", "b">>)) @@
    (<<"r", "t", "d">> :> Link(<<"t", "n">>))

Parent(node) == IF node = Root THEN Root ELSE Front(node)

NoEnt == [err |-> "ENOENT", node |-> Root]

\* Path resolution of the kernel from directory cur: every link met on the
\* way is followed, the last component only when follow is set.
RECURSIVE Walk(_, _, _, _)
Walk(cur, segs, follow, fuel) ==
    IF segs = <<>> THEN [err |-> "", node |-> cur]
    ELSE IF FS[cur].kind # "dir" THEN [err |-> "ENOTDIR", node |-> cur]
    ELSE LET s    == Head(segs)
             rest == Tail(segs)
         IN  CASE s = "" \/ s = "." -> Walk(cur, rest, follow, fuel)
               [] s = ".." -> Walk(Parent(cur), rest, follow, fuel)
               [] OTHER ->
                    LET child == Append(cur, s)
                    IN  IF child \notin DOMAIN FS THEN NoEnt
                        ELSE IF FS[child].kind = "link" /\ (rest # <<>> \/ follow)
                        THEN IF fuel = 0 THEN [err |-> "ELOOP", node |-> child]
                             ELSE LET tg == FS[child].target
                                  IN  IF IsAbs(tg)
                                      THEN Walk(Root, Tail(tg) \o rest, follow, fuel - 1)
                                      ELSE Walk(cur, tg \o rest, follow, fuel - 1)
                        ELSE Walk(child, rest, follow, fuel)

Lookup(path, follow) ==
    IF path = <<"">> THEN NoEnt
    ELSE IF IsAbs(path)
         THEN Walk(Root, Tail(path), follow, Cardinality(DOMAIN FS))
         ELSE Walk(Cwd, path, follow, Cardinality(DOMAIN FS))

\* os.Lstat(name): the entry itself, a final link not followed.
Lstat(name) == Lookup(name, FALSE)

\* os.Readlink(name): the stored target of the link, as stored.
Readlink(name) == FS[Lstat(name).node].target

\* os.Open(name): resolved from the working directory, links followed.
\* Opening a directory for reading succeeds; reading from it fails.
Open(name) == Lookup(name, TRUE)

-----------------------------------------------------------------------------
(* Errors.  An error is its message: the format and the path it names. *)

Nil == [msg |-> "", arg |-> <<>>]

ErrUnexpectedEOF == [msg |-> "unexpected EOF", arg |-> <<>>]
ErrShortWrite == [msg |-> "short write", arg |-> <<>>]
ErrInvalidWrite == [msg |-> "invalid write result", arg |-> <<>>]
EOF == [msg |-> "EOF", arg |-> <<>>]
ErrStdoutWrite == [msg |-> "write /dev/stdout: no space left on device", arg |-> <<>>]
ErrReadDir(name) == [msg |-> "read %s: is a directory", arg |-> name]

\* ErrNotFound with the message of the open failure
ErrNotFoundRaw(name) == [msg |-> "cannot open %s", arg |-> name]

ErrNotFound(name) == [msg |-> "%s: No such file or directory", arg |-> name]

ErrIsDir(name) == [msg |-> "%s: Is a directory", arg |-> name]

ErrCannotOpen(name) == [msg |-> "cannot open %s", arg |-> name]

-----------------------------------------------------------------------------
(* Writers. *)

completeWriter == [kind |-> "completeWriter", limited |-> FALSE, cap |-> 0]
incompleteWriter == [kind |-> "incompleteWriter", limited |-> FALSE, cap |-> 0]
faultyWriter == [kind |-> "faultyWriter", limited |-> FALSE, cap |-> 0]
\* os.Stdout: a file that takes every byte, or only the first cap bytes
\* (a full device, a closed pipe) and then fails each write.
Stdout(limited, cap) == [kind |-> "os.Stdout", limited |-> limited, cap |-> cap]

Stdouts == {Stdout(FALSE, 0)} \cup {Stdout(TRUE, c) : c \in 0..MaxLen}

Writers == {completeWriter, incompleteWriter, faultyWriter} \cup Stdouts

\* Write(b) on writer wr that has accepted acc so far: [n, err].
Write(wr, acc, b) ==
    CASE wr.kind = "completeWriter" -> [n |-> Len(b), err |-> Nil]
      [] wr.kind = "incompleteWriter" ->
            IF Len(b) = 0 THEN [n |-> 0, err |-> EOF] ELSE [n |-> 1, err |-> Nil]
      [] wr.kind = "faultyWriter" -> [n |-> 0, err |-> ErrUnexpectedEOF]
      [] OTHER ->
            IF ~wr.limited \/ Len(acc) + Len(b) <= wr.cap
            THEN [n |-> Len(b), err |-> Nil]
            ELSE [n |-> IF wr.cap > Len(acc) THEN wr.cap - Len(acc) ELSE 0,
                  err |-> ErrStdoutWrite]

\* The errors a writer itself can return.
WriterErrors(wr) ==
    CASE wr.kind = "completeWriter" -> {}
      [] wr.kind = "incompleteWriter" -> {EOF}
      [] wr.kind = "faultyWriter" -> {ErrUnexpectedEOF}
      [] OTHER -> {ErrStdoutWrite}

\* The loop of io.Copy from a reader holding bytes, read up to off, into wr:
\* [out, err], out being everything wr has accepted.
\* CopyLoop without its loop: only the first buffer is transferred
CopyLoopOnce(bytes, off, wr, acc) ==
    IF off >= Len(bytes) THEN [out |-> acc, err |-> Nil]
    ELSE LET nr  == Min(BufSize, Len(bytes) - off)
             buf == SubSeq(bytes, off + 1, off + nr)
             r   == Write(wr, acc, buf)
         IN  [out |-> acc \o SubSeq(buf, 1, r.n), err |-> r.err]

\* CopyLoop with the result of Write dropped
CopyLoopDropError(bytes, off, wr, acc) ==
    [out |-> acc \o SubSeq(bytes, off + 1, off + Write(wr, acc, SubSeq(bytes, off + 1, Len(bytes))).n),
     err |-> Nil]

RECURSIVE CopyLoop(_, _, _, _)
CopyLoop(bytes, off, wr, acc) ==
    IF off >= Len(bytes) THEN [out |-> acc, err |-> Nil]
    ELSE LET nr  == Min(BufSize, Len(bytes) - off)
             buf == SubSeq(bytes, off + 1, off + nr)
             r   == Write(wr, acc, buf)
             bad == r.n < 0 \/ nr < r.n
             nw  == IF bad THEN 0 ELSE r.n
             ew  == IF bad /\ r.err = Nil THEN ErrInvalidWrite ELSE r.err
             acc2 == acc \o SubSeq(buf, 1, nw)
         IN  IF ew # Nil THEN [out |-> acc2, err |-> ew]
             ELSE IF nr # nw THEN [out |-> acc2, err |-> ErrShortWrite]
             ELSE CopyLoop(bytes, off + nr, wr, acc2)

\* io.Copy(wr, file): a read from a directory fails at once.
IoCopy(file, wr, acc) ==
    IF FS[file.node].kind = "dir"
    THEN [out |-> acc, err |-> ErrReadDir(file.name)]
    ELSE CopyLoop(data[FS[file.node].file], 0, wr, acc)

-----------------------------------------------------------------------------
(* Inputs. *)

P(a) == <<a>>
P2(a, b) == <<a, b>>
P3(a, b, c) == <<a, b, c>>

\* paths given to cat by its callers
CatPaths == {
    P("a"), P2(".", "a"), P2("t", "b"), P3("t", "", "b"), P3("t", "..", "a"),
    P3("", "r", "a"), P3("n", "..", "a"), P2("j", "b"),
    P("n"), P2(".", "n"), P2("t", "n"), P2("a", "n"), P(""),
    P("t"), P2("t", ""), P("."), P(".."), P2("", ""), P2("t", ".."), P3("", "r", "t"),
    P("l"), P("l2"), P("k"), P("j"),
    P2("t", "lb"), P2("t", "m"), P2("t", "c"), P2("t", "d") }

\* file arguments of the runs of main
MainPaths == { P("a"), P2("t", "b"), P("n"), P("t"), P("k"), P("l"), P("j"),
               P2("t", "lb"), P2("t", "c") }

TestData == [id \in Files |-> IF id = "A" THEN <<104, 105>> ELSE <<255>>]

NoFile == [set |-> FALSE, name |-> <<>>, node |-> Root]

-----------------------------------------------------------------------------
(* cat(src, w), cat.go lines 52-81, one action per statement group. *)

\* the descriptor of the file the current call opens
Fd == Len(calls)

\* src = filepath.Clean(src); os.Lstat; the not-found and directory returns
CatLstat ==
    /\ cpc = "entry"
    /\ LET c == Clean(src)
           i == Lstat(c)
       IN  /\ src' = c
           /\ IF i.err # ""
              THEN ret' = ErrNotFound(c) /\ cpc' = "ret"
              ELSE IF FS[i.node].kind = "dir"
                   THEN ret' = ErrIsDir(Basename(c)) /\ cpc' = "ret"
                   ELSE ret' = ret /\ cpc' = "readlink"
    /\ UNCHANGED <<args, stdin, data, w, out, errs, stderr, pc, j, calls, marks, f, fds>>

\* if i.Mode()&os.ModeSymlink != 0 { src, _ = os.Readlink(src) }
\* (i is the entry CatLstat found at src; the filesystem has not changed)
CatReadlink ==
    /\ cpc = "readlink"
    /\ src' = IF FS[Lstat(src).node].kind = "link" THEN Readlink(src) ELSE src
    /\ cpc' = "open"
    /\ UNCHANGED <<args, stdin, data, w, out, errs, stderr, pc, j, calls, marks, f, ret, fds>>

\* f, err := os.Open(src) and the cannot-open return
CatOpen ==
    /\ cpc = "open"
    /\ LET o == Open(src)
       IN  IF o.err # ""
           THEN /\ ret' = ErrCannotOpen(src)
                /\ cpc' = "ret"
                /\ UNCHANGED <<f, fds>>
           ELSE /\ f' = [set |-> TRUE, name |-> src, node |-> o.node]
                /\ fds' = fds \cup {Fd}
                /\ cpc' = "copy"
                /\ ret' = ret
    /\ UNCHANGED <<args, stdin, data, w, out, errs, stderr, pc, j, calls, marks, src>>

\* _, err = io.Copy(w, f)
CatCopy ==
    /\ cpc = "copy"
    /\ LET r == IoCopy(f, w, out)
       IN  out' = r.out /\ ret' = r.err
    /\ cpc' = "close"
    /\ UNCHANGED <<args, stdin, data, w, errs, stderr, pc, j, calls, marks, src, f, fds>>

\* CatClose closing the file only when the copy succeeded
CatCloseOnSuccess ==
    /\ cpc = "close"
    /\ fds' = IF ret = Nil THEN fds \ {Fd} ELSE fds
    /\ cpc' = "ret"
    /\ UNCHANGED <<args, stdin, data, w, out, errs, stderr, pc, j, calls, marks, src, f, ret>>

\* return err, running the deferred f.Close()
CatClose ==
    /\ cpc = "close"
    /\ fds' = fds \ {Fd}
    /\ cpc' = "ret"
    /\ UNCHANGED <<args, stdin, data, w, out, errs, stderr, pc, j, calls, marks, src, f, ret>>

-----------------------------------------------------------------------------
(* main, cat.go lines 15-48; args is flag.Args() after flag.Parse(). *)

\* case 0: _, err := io.Copy(os.Stdout, os.Stdin); errs = append(errs, err)
MainStdin ==
    /\ pc = "main" /\ args = <<>> /\ errs = <<>>
    /\ LET r == CopyLoop(stdin, 0, w, out)
       IN  /\ out' = r.out
           /\ errs' = Append(errs, r.err)
    /\ pc' = "defer"
    /\ UNCHANGED <<args, stdin, data, w, stderr, j, calls, marks, cpc, src, f, ret, fds>>

\* for _, arg := range args { err := cat(arg, os.Stdout) ...: the call
MainCall ==
    /\ pc = "main" /\ cpc = "idle"
    /\ Len(errs) < Len(args)
    /\ calls' = Append(calls, args[Len(errs) + 1])
    /\ src' = args[Len(errs) + 1]
    /\ f' = NoFile
    /\ ret' = Nil
    /\ cpc' = "entry"
    /\ pc' = "wait"
    /\ UNCHANGED <<args, stdin, data, w, out, errs, stderr, j, marks, fds>>

\* ... errs = append(errs, err) }: the return of the call
MainCollect ==
    /\ pc = "wait" /\ cpc = "ret"
    /\ errs' = Append(errs, ret)
    /\ marks' = Append(marks, [end |-> Len(out), file |-> f])
    /\ cpc' = "idle"
    /\ pc' = "main"
    /\ UNCHANGED <<args, stdin, data, w, out, stderr, j, calls, src, f, ret, fds>>

\* MainReturn leaving the loop as soon as a call has failed
MainReturnEarly ==
    /\ pc = "main" /\ args # <<>>
    /\ \/ Len(errs) = Len(args)
       \/ errs # <<>> /\ errs[Len(errs)] # Nil
    /\ pc' = "defer"
    /\ UNCHANGED <<args, stdin, data, w, out, errs, stderr, j, calls, marks, cpc, src, f, ret, fds>>

\* the end of the range loop: main returns and its deferred function starts
MainReturn ==
    /\ pc = "main" /\ args # <<>>
    /\ Len(errs) = Len(args)
    /\ pc' = "defer"
    /\ UNCHANGED <<args, stdin, data, w, out, errs, stderr, j, calls, marks, cpc, src, f, ret, fds>>

ErrLine(e) == [fmt |-> "cat: %v\n", err |-> e]

\* MainFlush without the err != nil test
MainFlushAll ==
    /\ pc = "defer" /\ j <= Len(errs)
    /\ stderr' = Append(stderr, ErrLine(errs[j]))
    /\ j' = j + 1
    /\ UNCHANGED <<args, stdin, data, w, out, errs, pc, calls, marks, cpc, src, f, ret, fds>>

\* defer: for _, err := range errs { if err != nil { fmt.Fprintf(os.Stderr, ...
MainFlush ==
    /\ pc = "defer" /\ j <= Len(errs)
    /\ stderr' = IF errs[j] # Nil THEN Append(stderr, ErrLine(errs[j])) ELSE stderr
    /\ j' = j + 1
    /\ UNCHANGED <<args, stdin, data, w, out, errs, pc, calls, marks, cpc, src, f, ret, fds>>

\* the deferred function returns and the process exits
MainExit ==
    /\ pc = "defer" /\ j > Len(errs)
    /\ pc' = "done"
    /\ UNCHANGED <<args, stdin, data, w, out, errs, stderr, j, calls, marks, cpc, src, f, ret, fds>>

Init ==
    /\ args \in SeqsUpTo(MainPaths, MaxArgs)
    /\ stdin \in (IF args = <<>> THEN Contents ELSE {<<>>})
    /\ data = TestData
    /\ w \in Stdouts
    /\ out = <<>> /\ errs = <<>> /\ stderr = <<>>
    /\ pc = "main" /\ j = 1
    /\ calls = <<>> /\ marks = <<>>
    /\ cpc = "idle" /\ src = <<>> /\ f = NoFile /\ ret = Nil
    /\ fds = {}

Next ==
    \/ MainStdin \/ MainCall \/ MainCollect \/ MainReturn \/ MainFlush \/ MainExit
    \/ CatLstat \/ CatReadlink \/ CatOpen \/ CatCopy \/ CatClose

Spec == Init /\ [][Next]_vars

-----------------------------------------------------------------------------
(* cat called directly with any writer, as TestCat and BenchmarkCat do. *)

\* err := cat(tt.fpath, tt.w)
TestCall ==
    /\ pc = "test" /\ cpc = "idle"
    /\ calls' = Append(calls, args[1])
    /\ src' = args[1]
    /\ f' = NoFile
    /\ ret' = Nil
    /\ cpc' = "entry"
    /\ pc' = "called"
    /\ UNCHANGED <<args, stdin, data, w, out, errs, stderr, j, marks, fds>>

\* the call has returned err to the test
TestReturn ==
    /\ pc = "called" /\ cpc = "ret"
    /\ pc' = "done"
    /\ UNCHANGED <<args, stdin, data, w, out, errs, stderr, j, calls, marks, cpc, src, f, ret, fds>>

InitCat ==
    /\ args \in {<<p>> : p \in CatPaths}
    /\ stdin = <<>>
    /\ data \in [Files -> Contents]
    /\ w \in Writers
    /\ out = <<>> /\ errs = <<>> /\ stderr = <<>>
    /\ pc = "test" /\ j = 1
    /\ calls = <<>> /\ marks = <<>>
    /\ cpc = "idle" /\ src = <<>> /\ f = NoFile /\ ret = Nil
    /\ fds = {}

NextCat ==
    \/ TestCall \/ TestReturn
    \/ CatLstat \/ CatReadlink \/ CatOpen \/ CatCopy \/ CatClose

SpecCat == InitCat /\ [][NextCat]_vars

-----------------------------------------------------------------------------
(* Properties.  Under SpecCat the argument of the one call is args[1]; the *)
(* kernel's own view of a path as passed is Lstat (the entry) and Stat (the *)
(* entry every link leads to).                                             *)

Arg == args[1]
Returned == pc = "done"
Stat(name) == Lookup(name, TRUE)
Exists(name) == Lstat(name).err = ""
KindOf(r) == IF r.err = "" THEN FS[r.node].kind ELSE "none"
BytesOf(r) == data[FS[r.node].file]
NeverFails(wr) == wr.kind = "completeWriter" \/ (wr.kind = "os.Stdout" /\ ~wr.limited)
Range(s) == {s[k] : k \in DOMAIN s}

Segment(k) == SubSeq(out, (IF k = 1 THEN 0 ELSE marks[k - 1].end) + 1, marks[k].end)

\* C2: when main ends a run with file arguments, cat was called once per
\* argument in argument order whatever failed, the content of every file
\* whose call succeeded is on standard output whole and in argument order,
\* an argument that is a regular file fails only if standard output does,
\* and every failure has its line on standard error.
C2_EveryArgumentInOrder ==
    (pc = "done" /\ args # <<>>)
        => /\ calls = args
           /\ Len(errs) = Len(args)
           /\ Len(marks) = Len(args)
           /\ marks[Len(marks)].end = Len(out)
           /\ \A k \in 1..Len(args) :
                /\ errs[k] = Nil =>
                     /\ marks[k].file.set
                     /\ FS[marks[k].file.node].kind = "file"
                     /\ Segment(k) = data[FS[marks[k].file.node].file]
                /\ (KindOf(Lstat(args[k])) = "file" /\ ~w.limited) =>
                     /\ errs[k] = Nil
                     /\ marks[k].file.node = Lstat(args[k]).node
                /\ errs[k] # Nil => ErrLine(errs[k]) \in Range(stderr)

C2_Witness ==
    /\ pc = "done" /\ Len(args) = 2
    /\ errs[1] # Nil /\ errs[2] = Nil
    /\ out # <<>> /\ stderr # <<>>

RECURSIVE LinesOf(_)
LinesOf(es) ==
    IF es = <<>> THEN <<>>
    ELSE IF Head(es) = Nil THEN LinesOf(Tail(es))
         ELSE <<ErrLine(Head(es))>> \o LinesOf(Tail(es))

\* C3: no error line reaches standard error before every file argument has
\* been attempted, nothing is written to standard output once an error line
\* is out, and at exit standard error holds one line "cat: <message>\n" per
\* failed argument, none per successful one, in argument order.
C3_ErrorsDeferred ==
    /\ [](stderr # <<>> => (pc \in {"defer", "done"} /\ cpc = "idle" /\ calls = args
                                /\ (args # <<>> => Len(errs) = Len(args))))
    /\ [](pc = "done" => stderr = LinesOf(errs))
    /\ [][stderr # <<>> => out' = out]_vars
    /\ [][stderr' # stderr => out' = out]_vars

C3_Witness ==
    /\ pc = "done" /\ Len(args) = 2
    /\ errs[1] # Nil /\ errs[2] = Nil
    /\ out # <<>> /\ Len(stderr) = 1

\* C4: a call of cat on a symbolic link whose target exists and is a regular
\* file, with a writer that never fails, returns nil and writes the target's
\* content, wherever the link lives and however its target is stored.
C4_LinkToRegularFile ==
    (Returned /\ NeverFails(w) /\ KindOf(Lstat(Arg)) = "link" /\ KindOf(Stat(Arg)) = "file")
        => (ret = Nil /\ out = BytesOf(Stat(Arg)))

\* C5: a call of cat on a path that does not exist fails with
\* "<p>: No such file or directory", p being the path exactly as passed.
C5_NotFoundNamesArgument ==
    (Returned /\ ~Exists(Arg))
        => ret = [msg |-> "%s: No such file or directory", arg |-> Arg]

\* C5, amended: a call of cat on a path whose cleaned form does not exist
\* fails with "<c>: No such file or directory", c being the cleaned path.
C5_NotFoundNamesCleanedPath ==
    (Returned /\ ~Exists(Clean(Arg)))
        => ret = [msg |-> "%s: No such file or directory", arg |-> Clean(Arg)]

C5_Witness ==
    /\ Returned /\ ~Exists(Clean(Arg))
    /\ Arg # Clean(Arg)
    /\ ret.msg = "%s: No such file or directory"

C7_DanglingLinkCannotOpen ==
    (Returned /\ KindOf(Lstat(Arg)) = "link" /\ Stat(Arg).err # "")
        => ret = [msg |-> "cannot open %s", arg |-> FS[Lstat(Arg).node].target]

\* the writer rejects a write when offered the bytes in buffers
Rejects(wr, bytes) ==
    CASE wr.kind = "completeWriter" -> FALSE
      [] wr.kind = "incompleteWriter" -> Len(bytes) > 1
      [] wr.kind = "faultyWriter" -> Len(bytes) > 0
      [] OTHER -> wr.limited /\ Len(bytes) > wr.cap

OpenedRegular == f.set /\ FS[f.node].kind = "file"

C9_HandleReleased ==
    /\ cpc \in {"idle", "ret"} => fds = {}
    /\ Cardinality(fds) <= 1

C9_Witness ==
    /\ cpc = "ret" /\ f.set /\ ret # Nil
    /\ Len(calls) = 2 /\ errs[1] = Nil

\* C10: a call of cat that fails returns not-found, is-a-directory,
\* cannot-open or a failure of the write to the writer, and nothing else; a
\* path that leads to a directory is reported as is-a-directory.
C10_FourKinds ==
    (Returned /\ ret # Nil)
        => /\ \/ ret.msg = "%s: No such file or directory"
              \/ ret.msg = "%s: Is a directory"
              \/ ret.msg = "cannot open %s"
              \/ f.set /\ ret \in (WriterErrors(w) \cup {ErrShortWrite})
           /\ KindOf(Stat(Arg)) = "dir" => ret.msg = "%s: Is a directory"

====
